---- MODULE Spec2Model ----
(***************************************************************************)
(* The C ABI of flutter_opencv (src/src/flutter_opencv.cc, .h): opaque     *)
(* cv::Mat / cv::VideoCapture handles, malloc'ed byte and contour results, *)
(* and the dispatch of every exported function to the OpenCV library.      *)
(*                                                                         *)
(* One action per exported function.  An action is one complete call made  *)
(* by the host: the host passes NULL or a handle/result it holds (the use  *)
(* of a released handle is excluded by the API's contract), the function   *)
(* body runs, and the host records what was returned.  OpenCV is outside   *)
(* the repository: each library call is an oracle that either returns a    *)
(* result drawn from a small set or throws a C++ exception (cv::Exception, *)
(* std::bad_alloc).  No function of the source has a try/catch, so a       *)
(* thrown exception leaves the extern "C" function: the process state      *)
(* after that is pc = "exception" and no further call is made.  A store    *)
(* through a pointer that malloc returned as NULL is a store to address 0, *)
(* which faults on every target the plugin is built for: pc = "segv".      *)
(* A call that returns leaves pc = "returned" with the call, its library   *)
(* calls, its allocations and its result on record; the host then takes    *)
(* the result (Resume) and is free to make the next call.                  *)
(*                                                                         *)
(* Addresses are handed out first-fit.  The source never orders or does    *)
(* arithmetic on the addresses of distinct objects, so every behaviour     *)
(* under another allocator is a renaming of one modelled here.             *)
(***************************************************************************)
EXTENDS Integers, Sequences, FiniteSets, TLC

\* ------------------------------------------------------------------ bounds
MaxMats == 2        \* cv::Mat objects that can be live at once
MaxCaps == 1        \* cv::VideoCapture objects that can be live at once
MaxContours == 2    \* contours the library reports for one image
MaxPoints == 2      \* points of one contour
MaxLen == 2         \* bytes of an encoded payload
ImgDim == 2         \* rows and columns of a non-empty image

NULL == 0

\* malloc'ed blocks that can be live at once: the largest contour set
HeapSize == MaxContours + 2

\* ------------------------------------------------------------ input domains
PixVals == {0, 1}               \* abstract pixel contents of a non-empty image
KSizes == {0 - 2, 4, 5}         \* kernel / block sizes passed by the host
PropVals == {0, 7}              \* capture property values

\* The payload cv::imencode produces, by length.
Payload(n) == [i \in 1..n |-> 100 + i]

EmptyMat == [rows |-> 0, cols |-> 0, ch |-> 1, pix |-> 0]

ImageValues ==
    {[rows |-> ImgDim, cols |-> ImgDim, ch |-> c, pix |-> p] : c \in {1, 3}, p \in PixVals}

MatValues == {EmptyMat} \cup ImageValues

Payloads == {Payload(n) : n \in 1..MaxLen}

\* The j-th point of the i-th contour the library reports: all coordinates
\* differ, so a swapped or shifted coordinate shows.
PointAt(i, j) == <<20 * i + 2 * j + 1, 20 * i + 2 * j + 2>>

\* The i-th contour has 1..MaxPoints points (a contour is never empty), and
\* neighbouring contours differ in length.
PointsOf(i) == ((i - 1) % MaxPoints) + 1

ContourList(n) == [i \in 1..n |-> [j \in 1..PointsOf(i) |-> PointAt(i, j)]]

\* What cv::findContours can report: 0..MaxContours contours.
LibContours == {ContourList(n) : n \in 0..MaxContours}

\* ------------------------------------------------------------------- state
VARIABLES
    mats,          \* live cv::Mat objects: address -> value
    caps,          \* live cv::VideoCapture objects: address -> "open"
    heap,          \* live malloc blocks: address -> cells written
    heldMats,      \* host: image handles returned and not yet released
    heldCaps,      \* host: device handles returned and not yet closed
    heldBytes,     \* host: BytesResult values returned and not yet freed
    heldContours,  \* host: ContoursResult values returned and not yet freed
    call,          \* the last call: function, handle arguments, other arguments
    ext,           \* the library calls the last call made, in order
    memlog,        \* the allocations and deallocations the last call made, in order
    ret,           \* what the last call returned
    pc             \* "idle", "returned", or how the process ended: "exception", "segv"

native == <<mats, caps, heap>>
host == <<heldMats, heldCaps, heldBytes, heldContours>>
vars == <<mats, caps, heap, heldMats, heldCaps, heldBytes, heldContours,
          call, ext, memlog, ret, pc>>

\* ----------------------------------------------------------------- helpers
Ret(tag, val, p1, p2) == [tag |-> tag, val |-> val, p1 |-> p1, p2 |-> p2]
RetVoid == Ret("void", 0, NULL, NULL)
RetNone == Ret("none", 0, NULL, NULL)
RetInt(n) == Ret("int", n, NULL, NULL)
RetDouble(d) == Ret("double", d, NULL, NULL)
RetHandle(h) == Ret("handle", h, NULL, NULL)
RetPtr(p) == Ret("ptr", 0, p, NULL)
RetBytes(b) == Ret("bytes", b.len, b.data, NULL)
RetContours(c) == Ret("contours", c.num_contours, c.contours, c.contour_sizes)

\* A call into OpenCV: the function, the enum constant or literal it is given
\* by name (if any), and its other arguments in order.
LibCall(fn, code, args) == [fn |-> fn, code |-> code, args |-> args]

FirstFree(used, max) ==
    CHOOSE a \in 1..max : a \notin used /\ \A b \in 1..max : b \notin used => a <= b

HasFree(used, max) == \E a \in 1..max : a \notin used

\* C's % on int: the remainder has the sign of the dividend.
CRem(a, b) == IF a >= 0 THEN a % b ELSE 0 - ((0 - a) % b)

\* Faulty variant: the release function forgets the delete.
DeleteNothing(objs, p) == objs

\* delete (cv::Mat*)p / delete (cv::VideoCapture*)p
Delete(objs, p) == [a \in DOMAIN objs \ {p} |-> objs[a]]

\* The function returned normally.
Done(op, handles, args, libcalls, log, r) ==
    /\ call' = [op |-> op, handles |-> handles, args |-> args]
    /\ ext' = libcalls
    /\ memlog' = log
    /\ ret' = r
    /\ pc' = "returned"

\* The function did not return: an exception left it, or it faulted.
Escape(op, handles, args, libcalls, log, how) ==
    /\ call' = [op |-> op, handles |-> handles, args |-> args]
    /\ ext' = libcalls
    /\ memlog' = log
    /\ ret' = RetNone
    /\ pc' = how

NoCall == [op |-> "none", handles |-> <<>>, args |-> <<>>]

\* The host takes the result of the call that returned.
Resume ==
    /\ pc = "returned"
    /\ pc' = "idle"
    /\ call' = NoCall
    /\ ext' = <<>>
    /\ memlog' = <<>>
    /\ ret' = RetNone
    /\ UNCHANGED <<mats, caps, heap, heldMats, heldCaps, heldBytes, heldContours>>

\* A representative value of a pass-through parameter, by position.
Dom(i) == {10 * i}

MatArgs == heldMats \cup {NULL}

\* The host frees the malloc'ed result it holds before it asks an image for
\* another.
ResultArgs == IF heldBytes = {} /\ heldContours = {} THEN MatArgs ELSE {NULL}
CapArgs == heldCaps \cup {NULL}

Init ==
    /\ mats = <<>>
    /\ caps = <<>>
    /\ heap = <<>>
    /\ heldMats = {}
    /\ heldCaps = {}
    /\ heldBytes = {}
    /\ heldContours = {}
    /\ call = NoCall
    /\ ext = <<>>
    /\ memlog = <<>>
    /\ ret = RetNone
    /\ pc = "idle"

\* ------------------------------------------------------- version, lifecycle
opencv_version ==
    /\ pc = "idle"
    /\ Done("opencv_version", <<>>, <<>>, <<>>, <<>>, Ret("string", 0, NULL, NULL))
    /\ UNCHANGED <<native, host>>

cv_mat_create ==
    /\ pc = "idle"
    /\ \/ /\ HasFree(DOMAIN mats, MaxMats)
          /\ LET a == FirstFree(DOMAIN mats, MaxMats) IN
              /\ mats' = mats @@ (a :> EmptyMat)
              /\ heldMats' = heldMats \cup {a}
              /\ Done("cv_mat_create", <<>>, <<>>, <<>>, <<<<"new", a>>>>, RetHandle(a))
          /\ UNCHANGED <<caps, heap, heldCaps, heldBytes, heldContours>>
       \/ \* operator new throws std::bad_alloc
          /\ Escape("cv_mat_create", <<>>, <<>>, <<>>, <<<<"new", NULL>>>>, "exception")
          /\ UNCHANGED <<native, host>>

cv_mat_release ==
    /\ pc = "idle"
    /\ \E mat \in MatArgs :
        /\ mats' = IF mat # NULL THEN Delete(mats, mat) ELSE mats
        /\ heldMats' = heldMats \ {mat}
        /\ Done("cv_mat_release", <<mat>>, <<>>, <<>>,
                IF mat # NULL THEN <<<<"delete", mat>>>> ELSE <<>>, RetVoid)
    /\ UNCHANGED <<caps, heap, heldCaps, heldBytes, heldContours>>

\* ---------------------------------------------------------------- image I/O
Paths == {1, 2}     \* file names, by identity
Exts == {1}         \* format hints, by identity

ZeroBytes == [data |-> NULL, len |-> 0]

cv_imread ==
    /\ pc = "idle"
    /\ \E filename \in Paths :
        LET lib == <<LibCall("cv::imread", "", <<filename>>)>> IN
        \/ /\ Escape("cv_imread", <<>>, <<filename>>, lib, <<>>, "exception")
           /\ UNCHANGED <<native, host>>
        \/ \E image \in MatValues :
            IF image = EmptyMat
              THEN /\ Done("cv_imread", <<>>, <<filename>>, lib, <<>>, RetHandle(NULL))
                   /\ UNCHANGED <<native, host>>
              ELSE /\ HasFree(DOMAIN mats, MaxMats)
                   /\ LET a == FirstFree(DOMAIN mats, MaxMats) IN
                       /\ mats' = mats @@ (a :> image)
                       /\ heldMats' = heldMats \cup {a}
                       /\ Done("cv_imread", <<>>, <<filename>>, lib, <<<<"new", a>>>>,
                               RetHandle(a))
                   /\ UNCHANGED <<caps, heap, heldCaps, heldBytes, heldContours>>

cv_imwrite ==
    /\ pc = "idle"
    /\ \E filename \in Paths, mat \in MatArgs :
        /\ IF mat = NULL
             THEN Done("cv_imwrite", <<mat>>, <<filename>>, <<>>, <<>>, RetInt(0))
             ELSE LET lib == <<LibCall("cv::imwrite", "", <<filename, mat>>)>> IN
                  \/ Escape("cv_imwrite", <<mat>>, <<filename>>, lib, <<>>, "exception")
                  \/ \E written \in BOOLEAN :
                      Done("cv_imwrite", <<mat>>, <<filename>>, lib, <<>>,
                           RetInt(IF written THEN 1 ELSE 0))
    /\ UNCHANGED <<native, host>>

cv_imdecode ==
    /\ pc = "idle"
    /\ \E data \in Payloads :
        LET len == Len(data)
            buffer == SubSeq(data, 1, len)
            lib == <<LibCall("cv::imdecode", "IMREAD_COLOR", buffer)>>
        IN
        \/ /\ Escape("cv_imdecode", <<>>, <<len>>, lib, <<>>, "exception")
           /\ UNCHANGED <<native, host>>
        \/ \E image \in MatValues :
            IF image = EmptyMat
              THEN /\ Done("cv_imdecode", <<>>, <<len>>, lib, <<>>, RetHandle(NULL))
                   /\ UNCHANGED <<native, host>>
              ELSE /\ HasFree(DOMAIN mats, MaxMats)
                   /\ LET a == FirstFree(DOMAIN mats, MaxMats) IN
                       /\ mats' = mats @@ (a :> image)
                       /\ heldMats' = heldMats \cup {a}
                       /\ Done("cv_imdecode", <<>>, <<len>>, lib, <<<<"new", a>>>>,
                               RetHandle(a))
                   /\ UNCHANGED <<caps, heap, heldCaps, heldBytes, heldContours>>

cv_imencode ==
    /\ pc = "idle"
    /\ \E e \in Exts, mat \in ResultArgs :
        IF mat = NULL
          THEN /\ Done("cv_imencode", <<mat>>, <<e>>, <<>>, <<>>, RetBytes(ZeroBytes))
               /\ UNCHANGED <<native, host>>
          ELSE LET lib == <<LibCall("cv::imencode", "", <<e, mat>>)>> IN
               \/ /\ Escape("cv_imencode", <<mat>>, <<e>>, lib, <<>>, "exception")
                  /\ UNCHANGED <<native, host>>
               \/ \* cv::imencode returned false
                  /\ Done("cv_imencode", <<mat>>, <<e>>, lib, <<>>, RetBytes(ZeroBytes))
                  /\ UNCHANGED <<native, host>>
               \/ \* cv::imencode returned true and filled the vector
                  \E buffer \in Payloads :
                    LET len == Len(buffer) IN
                    \/ \* malloc returned a block
                       /\ HasFree(DOMAIN heap, HeapSize)
                       /\ LET data == FirstFree(DOMAIN heap, HeapSize)
                              result == [data |-> data, len |-> len]
                          IN
                          /\ heap' = heap @@ (data :> buffer)
                          /\ heldBytes' = heldBytes \cup {result}
                          /\ Done("cv_imencode", <<mat>>, <<e>>, lib,
                                  <<<<"malloc", data>>>>, RetBytes(result))
                       /\ UNCHANGED <<mats, caps, heldMats, heldCaps, heldContours>>
                    \/ \* malloc returned NULL: memcpy(NULL, ..., len) with len > 0
                       /\ Escape("cv_imencode", <<mat>>, <<e>>, lib,
                                 <<<<"malloc", NULL>>>>, "segv")
                       /\ UNCHANGED <<native, host>>

cv_free_bytes ==
    /\ pc = "idle"
    /\ \E bytes \in heldBytes \cup {ZeroBytes} :
        /\ heap' = IF bytes.data # NULL
                     THEN [a \in DOMAIN heap \ {bytes.data} |-> heap[a]]
                     ELSE heap
        /\ heldBytes' = heldBytes \ {bytes}
        /\ Done("cv_free_bytes", <<>>, <<bytes.data, bytes.len>>, <<>>,
                IF bytes.data # NULL THEN <<<<"free", bytes.data>>>> ELSE <<>>, RetVoid)
    /\ UNCHANGED <<mats, caps, heldMats, heldCaps, heldContours>>

\* --------------------------------------------------------------- transforms
\* The body every handle-returning transform shares (e.g. lines 61-66): the
\* null check, the library calls in order into a local dst, then
\* new cv::Mat(dst).  The local dst is the only other owner of the pixels and
\* dies at the return, so the new object shares pixels with no other handle.
\* Faulty variant: the result is written over the input object and the input handle is
\* returned.
StoredInPlace(mat, dst) ==
    [handle |-> mat, mats |-> [mats EXCEPT ![mat] = dst], log |-> <<>>]

\* return (CvMat*)new cv::Mat(dst): a new object at a fresh address; the
\* object behind mat is not written.
Stored(mat, dst) ==
    LET a == FirstFree(DOMAIN mats, MaxMats)
    IN [handle |-> a, mats |-> mats @@ (a :> dst), log |-> <<<<"new", a>>>>]

Transform(op, mat, args, libcalls) ==
    IF mat = NULL
      THEN /\ Done(op, <<mat>>, args, <<>>, <<>>, RetHandle(NULL))
           /\ UNCHANGED <<native, host>>
      ELSE \/ \E n \in 1..Len(libcalls) :
                /\ Escape(op, <<mat>>, args, SubSeq(libcalls, 1, n), <<>>, "exception")
                /\ UNCHANGED <<native, host>>
           \/ /\ HasFree(DOMAIN mats, MaxMats)
              /\ \E dst \in MatValues :
                  LET new == Stored(mat, dst) IN
                  /\ mats' = new.mats
                  /\ heldMats' = heldMats \cup {new.handle}
                  /\ Done(op, <<mat>>, args, libcalls, new.log, RetHandle(new.handle))
              /\ UNCHANGED <<caps, heap, heldCaps, heldBytes, heldContours>>

cv_cvtColor_bgr2gray ==
    /\ pc = "idle"
    /\ \E mat \in MatArgs :
        Transform("cv_cvtColor_bgr2gray", mat, <<>>,
                  <<LibCall("cv::cvtColor", "COLOR_BGR2GRAY", <<mat>>)>>)

cv_cvtColor_bgr2rgb ==
    /\ pc = "idle"
    /\ \E mat \in MatArgs :
        Transform("cv_cvtColor_bgr2rgb", mat, <<>>,
                  <<LibCall("cv::cvtColor", "COLOR_BGR2RGB", <<mat>>)>>)

cv_cvtColor_bgr2hsv ==
    /\ pc = "idle"
    /\ \E mat \in MatArgs :
        Transform("cv_cvtColor_bgr2hsv", mat, <<>>,
                  <<LibCall("cv::cvtColor", "COLOR_BGR2HSV", <<mat>>)>>)

cv_cvtColor_hsv2bgr ==
    /\ pc = "idle"
    /\ \E mat \in MatArgs :
        Transform("cv_cvtColor_hsv2bgr", mat, <<>>,
                  <<LibCall("cv::cvtColor", "COLOR_HSV2BGR", <<mat>>)>>)

cv_cvtColor_bgr2lab ==
    /\ pc = "idle"
    /\ \E mat \in MatArgs :
        Transform("cv_cvtColor_bgr2lab", mat, <<>>,
                  <<LibCall("cv::cvtColor", "COLOR_BGR2Lab", <<mat>>)>>)

cv_cvtColor_lab2bgr ==
    /\ pc = "idle"
    /\ \E mat \in MatArgs :
        Transform("cv_cvtColor_lab2bgr", mat, <<>>,
                  <<LibCall("cv::cvtColor", "COLOR_Lab2BGR", <<mat>>)>>)

cv_resize ==
    /\ pc = "idle"
    /\ \E mat \in MatArgs, width \in Dom(1), height \in Dom(2), interpolation \in Dom(3) :
        Transform("cv_resize", mat, <<width, height, interpolation>>,
                  <<LibCall("cv::resize", "", <<mat, width, height, 0, 0, interpolation>>)>>)

cv_flip ==
    /\ pc = "idle"
    /\ \E mat \in MatArgs, mode \in Dom(1) :
        Transform("cv_flip", mat, <<mode>>,
                  <<LibCall("cv::flip", "", <<mat, mode>>)>>)

cv_rotate ==
    /\ pc = "idle"
    /\ \E mat \in MatArgs, code \in Dom(1) :
        Transform("cv_rotate", mat, <<code>>,
                  <<LibCall("cv::rotate", "", <<mat, code>>)>>)

\* Faulty variant: an even size is rounded down.
OddCorrectedDown(kernelSize) ==
    IF CRem(kernelSize, 2) = 0 THEN kernelSize - 1 ELSE kernelSize

\* if (kernelSize % 2 == 0) kernelSize++;  An even int is never INT_MAX, so the
\* increment cannot overflow.
OddCorrected(kernelSize) == IF CRem(kernelSize, 2) = 0 THEN kernelSize + 1 ELSE kernelSize

cv_gaussian_blur ==
    /\ pc = "idle"
    /\ \E mat \in MatArgs, kernelSize \in KSizes, sigma \in Dom(2) :
        Transform("cv_gaussian_blur", mat, <<kernelSize, sigma>>,
                  <<LibCall("cv::GaussianBlur", "",
                            <<mat, OddCorrected(kernelSize), OddCorrected(kernelSize), sigma>>)>>)

cv_median_blur ==
    /\ pc = "idle"
    /\ \E mat \in MatArgs, kernelSize \in KSizes :
        Transform("cv_median_blur", mat, <<kernelSize>>,
                  <<LibCall("cv::medianBlur", "", <<mat, OddCorrected(kernelSize)>>)>>)

cv_bilateral_filter ==
    /\ pc = "idle"
    /\ \E mat \in MatArgs, d \in Dom(1), sigmaColor \in Dom(2), sigmaSpace \in Dom(3) :
        Transform("cv_bilateral_filter", mat, <<d, sigmaColor, sigmaSpace>>,
                  <<LibCall("cv::bilateralFilter", "", <<mat, d, sigmaColor, sigmaSpace>>)>>)

cv_canny ==
    /\ pc = "idle"
    /\ \E mat \in MatArgs, threshold1 \in Dom(1), threshold2 \in Dom(2) :
        Transform("cv_canny", mat, <<threshold1, threshold2>>,
                  <<LibCall("cv::Canny", "", <<mat, threshold1, threshold2>>)>>)

cv_sobel ==
    /\ pc = "idle"
    /\ \E mat \in MatArgs, dx \in Dom(1), dy \in Dom(2), ksize \in KSizes :
        Transform("cv_sobel", mat, <<dx, dy, ksize>>,
                  <<LibCall("cv::Sobel", "CV_8U", <<mat, dx, dy, ksize>>)>>)

cv_laplacian ==
    /\ pc = "idle"
    /\ \E mat \in MatArgs, ksize \in KSizes :
        Transform("cv_laplacian", mat, <<ksize>>,
                  <<LibCall("cv::Laplacian", "CV_8U", <<mat, ksize>>)>>)

cv_sharpen ==
    /\ pc = "idle"
    /\ \E mat \in MatArgs :
        Transform("cv_sharpen", mat, <<>>,
                  <<LibCall("cv::filter2D", "",
                            <<mat, 0 - 1, 0, 0 - 1, 0, 0 - 1, 5, 0 - 1, 0, 0 - 1, 0>>)>>)

cv_erode ==
    /\ pc = "idle"
    /\ \E mat \in MatArgs, kernelSize \in Dom(1), iterations \in Dom(2) :
        Transform("cv_erode", mat, <<kernelSize, iterations>>,
                  <<LibCall("cv::getStructuringElement", "MORPH_RECT", <<kernelSize, kernelSize>>),
                    LibCall("cv::erode", "", <<mat, 0 - 1, 0 - 1, iterations>>)>>)

cv_dilate ==
    /\ pc = "idle"
    /\ \E mat \in MatArgs, kernelSize \in Dom(1), iterations \in Dom(2) :
        Transform("cv_dilate", mat, <<kernelSize, iterations>>,
                  <<LibCall("cv::getStructuringElement", "MORPH_RECT", <<kernelSize, kernelSize>>),
                    LibCall("cv::dilate", "", <<mat, 0 - 1, 0 - 1, iterations>>)>>)

cv_morphology_ex ==
    /\ pc = "idle"
    /\ \E mat \in MatArgs, op \in Dom(1), kernelSize \in Dom(2) :
        Transform("cv_morphology_ex", mat, <<op, kernelSize>>,
                  <<LibCall("cv::getStructuringElement", "MORPH_RECT", <<kernelSize, kernelSize>>),
                    LibCall("cv::morphologyEx", "", <<mat, op>>)>>)

cv_threshold ==
    /\ pc = "idle"
    /\ \E mat \in MatArgs, thresh \in Dom(1), maxval \in Dom(2), type \in Dom(3) :
        Transform("cv_threshold", mat, <<thresh, maxval, type>>,
                  <<LibCall("cv::threshold", "", <<mat, thresh, maxval, type>>)>>)

cv_adaptive_threshold ==
    /\ pc = "idle"
    /\ \E mat \in MatArgs, maxValue \in Dom(1), adaptiveMethod \in Dom(2), thresholdType \in Dom(3), blockSize \in KSizes, C \in Dom(5) :
        Transform("cv_adaptive_threshold", mat, <<maxValue, adaptiveMethod, thresholdType, blockSize, C>>,
                  <<LibCall("cv::adaptiveThreshold", "",
                            <<mat, maxValue, adaptiveMethod, thresholdType,
                              OddCorrected(blockSize), C>>)>>)

\* The library calls of cv_equalize_hist: src.channels() == 1 picks the branch.
\* A null handle is never dereferenced (the guard returns first).
EqualizeCalls(mat) ==
    IF mat # NULL /\ mats[mat].ch # 1
      THEN <<LibCall("cv::cvtColor", "COLOR_BGR2YCrCb", <<mat>>),
             LibCall("cv::split", "", <<>>),
             LibCall("cv::equalizeHist", "", <<1>>),
             LibCall("cv::merge", "", <<>>),
             LibCall("cv::cvtColor", "COLOR_YCrCb2BGR", <<>>)>>
      ELSE <<LibCall("cv::equalizeHist", "", <<mat>>)>>

cv_equalize_hist ==
    /\ pc = "idle"
    /\ \E mat \in MatArgs :
        Transform("cv_equalize_hist", mat, <<>>,
                  EqualizeCalls(mat))

cv_fast_nl_means_denoising ==
    /\ pc = "idle"
    /\ \E mat \in MatArgs, h \in Dom(1), templateWindowSize \in Dom(2), searchWindowSize \in Dom(3) :
        Transform("cv_fast_nl_means_denoising", mat, <<h, templateWindowSize, searchWindowSize>>,
                  <<LibCall("cv::fastNlMeansDenoising", "",
                            <<mat, h, templateWindowSize, searchWindowSize>>)>>)

cv_fast_nl_means_denoising_colored ==
    /\ pc = "idle"
    /\ \E mat \in MatArgs, h \in Dom(1), hColor \in Dom(2), templateWindowSize \in Dom(3), searchWindowSize \in Dom(4) :
        Transform("cv_fast_nl_means_denoising_colored", mat, <<h, hColor, templateWindowSize, searchWindowSize>>,
                  <<LibCall("cv::fastNlMeansDenoisingColored", "",
                            <<mat, h, hColor, templateWindowSize, searchWindowSize>>)>>)

\* ----------------------------------------------------------------- contours
ZeroContours == [contours |-> NULL, contour_sizes |-> NULL, num_contours |-> 0]

\* The first n free addresses, in the order malloc hands them out.
RECURSIVE AllocSeq(_, _)
AllocSeq(used, n) ==
    IF n = 0 THEN <<>>
    ELSE LET a == FirstFree(used, HeapSize) IN <<a>> \o AllocSeq(used \cup {a}, n - 1)

CanAlloc(n) == Cardinality((1..HeapSize) \ DOMAIN heap) >= n

\* Faulty variant: y is stored before x.
InterleaveSwapped(contour) ==
    [k \in 1..(2 * Len(contour)) |->
        IF k % 2 = 1 THEN contour[(k + 1) \div 2][2] ELSE contour[k \div 2][1]]

\* contours[i][j * 2] = x, contours[i][j * 2 + 1] = y (lines 274-277)
Interleave(contour) ==
    [k \in 1..(2 * Len(contour)) |->
        IF k % 2 = 1 THEN contour[(k + 1) \div 2][1] ELSE contour[k \div 2][2]]

\* Lines 265-280 for N > 0 contours.  `failed` is the malloc call that returns
\* NULL (0: the pointer array, 1: the sizes array, 1 + i: the points of contour
\* i) or N + 2 when none does.  No result of malloc is checked, so the first
\* store through a NULL result faults: through contour_sizes at line 272,
\* through contours at line 273, through contours[i] at line 275.
FindContoursRun(contours, failed) ==
    LET N == Len(contours)
        a == AllocSeq(DOMAIN heap, N + 2)
        outer == IF failed = 0 THEN NULL ELSE a[1]
        sizes == IF failed = 1 THEN NULL ELSE a[2]
        inner(i) == IF failed = 1 + i THEN NULL ELSE a[2 + i]
        \* iterations of the loop at line 271 that were entered and reached line 273
        reached == IF failed = 1 THEN 0 ELSE IF failed = 0 THEN 1
                   ELSE IF failed <= N + 1 THEN failed - 1 ELSE N
        \* iterations that stored contours[i] at line 273
        stored == IF failed = 0 THEN 0 ELSE reached
        outerBlock == IF outer = NULL THEN <<>>
                      ELSE outer :> [i \in 1..stored |-> inner(i)]
        sizesBlock == IF sizes = NULL THEN <<>>
                      ELSE sizes :> [i \in 1..reached |-> Len(contours[i])]
        innerBlocks == [b \in {inner(i) : i \in 1..reached} \ {NULL} |->
                          LET i == CHOOSE i \in 1..reached : inner(i) = b
                          IN IF outer = NULL THEN <<>> ELSE Interleave(contours[i])]
    IN [heap |-> heap @@ outerBlock @@ sizesBlock @@ innerBlocks,
        log |-> <<<<"malloc", outer>>, <<"malloc", sizes>>>>
                \o [i \in 1..reached |-> <<"malloc", inner(i)>>],
        fault |-> failed <= N + 1,
        result |-> [contours |-> outer, contour_sizes |-> sizes, num_contours |-> N]]

cv_find_contours ==
    /\ pc = "idle"
    /\ \E mat \in ResultArgs, mode \in Dom(1), method \in Dom(2) :
        IF mat = NULL
          THEN /\ Done("cv_find_contours", <<mat>>, <<mode, method>>, <<>>, <<>>,
                       RetContours(ZeroContours))
               /\ UNCHANGED <<native, host>>
          ELSE \/ /\ Escape("cv_find_contours", <<mat>>, <<mode, method>>,
                            <<LibCall("cv::findContours", "", <<mat, mode, method>>)>>,
                            <<>>, "exception")
                  /\ UNCHANGED <<native, host>>
               \/ \E contours \in LibContours :
                    \* the call, with what it left in the vector `contours`
                    LET lib == <<[fn |-> "cv::findContours", code |-> "",
                                 args |-> <<mat, mode, method>>, found |-> contours]>>
                    IN
                    IF Len(contours) = 0
                      THEN /\ Done("cv_find_contours", <<mat>>, <<mode, method>>, lib, <<>>,
                                   RetContours(ZeroContours))
                           /\ UNCHANGED <<native, host>>
                      ELSE /\ CanAlloc(Len(contours) + 2)
                           /\ \E failed \in 0..(Len(contours) + 2) :
                                LET run == FindContoursRun(contours, failed) IN
                                /\ heap' = run.heap
                                /\ IF run.fault
                                     THEN /\ Escape("cv_find_contours", <<mat>>,
                                                    <<mode, method>>, lib, run.log, "segv")
                                          /\ heldContours' = heldContours
                                     ELSE /\ Done("cv_find_contours", <<mat>>,
                                                  <<mode, method>>, lib, run.log,
                                                  RetContours(run.result))
                                          /\ heldContours' = heldContours \cup {run.result}
                           /\ UNCHANGED <<mats, caps, heldMats, heldCaps, heldBytes>>

\* Faulty variant: the pointer array is freed before the point arrays it points to.
FreeContoursLogOuterFirst(result) ==
    (IF result.contours # NULL
       THEN <<<<"free", result.contours>>>>
            \o [i \in 1..result.num_contours |-> <<"free", heap[result.contours][i]>>]
       ELSE <<>>)
    \o (IF result.contour_sizes # NULL THEN <<<<"free", result.contour_sizes>>>> ELSE <<>>)

\* The calls to free of lines 284-292, in order.
FreeContoursLog(result) ==
    (IF result.contours # NULL
       THEN [i \in 1..result.num_contours |-> <<"free", heap[result.contours][i]>>]
            \o <<<<"free", result.contours>>>>
       ELSE <<>>)
    \o (IF result.contour_sizes # NULL THEN <<<<"free", result.contour_sizes>>>> ELSE <<>>)

cv_free_contours ==
    /\ pc = "idle"
    /\ \E result \in heldContours \cup {ZeroContours} :
        LET log == FreeContoursLog(result)
            freed == {log[i][2] : i \in 1..Len(log)}
        IN
        /\ heap' = [a \in DOMAIN heap \ freed |-> heap[a]]
        /\ heldContours' = heldContours \ {result}
        /\ Done("cv_free_contours", <<>>,
                <<result.contours, result.contour_sizes, result.num_contours>>,
                <<>>, log, RetVoid)
    /\ UNCHANGED <<mats, caps, heldMats, heldCaps, heldBytes>>

\* std::vector<std::vector<cv::Point>> rebuilt from the flat arrays (lines 298-308)
CvContours(contours) ==
    [i \in 1..contours.num_contours |->
        [j \in 1..heap[contours.contour_sizes][i] |->
            <<heap[heap[contours.contours][i]][2 * j - 1],
              heap[heap[contours.contours][i]][2 * j]>>]]

\* ------------------------------------------------------------------ drawing
\* What a drawing call of the library leaves in the image it is given: it
\* writes pixels of that image and nothing else; an empty image has none.
Drawn(m, p) == IF m.rows = 0 \/ m.cols = 0 THEN m ELSE [m EXCEPT !.pix = p]

\* The body the in-place drawing functions share (lines 313-326): the guard,
\* then one library call on *(cv::Mat*)mat.
Draw(op, mat, skip, args, libcall) ==
    /\ IF mat = NULL \/ skip
         THEN /\ Done(op, <<mat>>, args, <<>>, <<>>, RetVoid)
              /\ mats' = mats
         ELSE \/ /\ Escape(op, <<mat>>, args, <<libcall>>, <<>>, "exception")
                 /\ mats' = mats
              \/ \E p \in PixVals :
                  /\ mats' = [mats EXCEPT ![mat] = Drawn(@, p)]
                  /\ Done(op, <<mat>>, args, <<libcall>>, <<>>, RetVoid)
    /\ UNCHANGED <<caps, heap, host>>

cv_draw_contours ==
    /\ pc = "idle"
    /\ \E mat \in MatArgs, contours \in heldContours \cup {ZeroContours},
          contourIdx \in {0 - 1, 0}, r \in Dom(1), g \in Dom(2), b \in Dom(3),
          thickness \in Dom(4) :
        Draw("cv_draw_contours", mat, contours.contours = NULL,
             <<contours.contours, contours.contour_sizes, contours.num_contours,
               contourIdx, r, g, b, thickness>>,
             [fn |-> "cv::drawContours", code |-> "",
              args |-> <<mat, contourIdx, b, g, r, thickness>>,
              contours |-> IF contours.contours = NULL THEN <<>>
                           ELSE CvContours(contours)])

cv_rectangle ==
    /\ pc = "idle"
    /\ \E mat \in MatArgs, x \in Dom(1), y \in Dom(2), width \in Dom(3), height \in Dom(4),
          r \in Dom(5), g \in Dom(6), b \in Dom(7), thickness \in Dom(8) :
        Draw("cv_rectangle", mat, FALSE, <<x, y, width, height, r, g, b, thickness>>,
             LibCall("cv::rectangle", "", <<mat, x, y, width, height, b, g, r, thickness>>))

cv_circle ==
    /\ pc = "idle"
    /\ \E mat \in MatArgs, centerX \in Dom(1), centerY \in Dom(2), radius \in Dom(3),
          r \in Dom(4), g \in Dom(5), b \in Dom(6), thickness \in Dom(7) :
        Draw("cv_circle", mat, FALSE, <<centerX, centerY, radius, r, g, b, thickness>>,
             LibCall("cv::circle", "", <<mat, centerX, centerY, radius, b, g, r, thickness>>))

cv_line ==
    /\ pc = "idle"
    /\ \E mat \in MatArgs, x1 \in Dom(1), y1 \in Dom(2), x2 \in Dom(3), y2 \in Dom(4),
          r \in Dom(5), g \in Dom(6), b \in Dom(7), thickness \in Dom(8) :
        Draw("cv_line", mat, FALSE, <<x1, y1, x2, y2, r, g, b, thickness>>,
             LibCall("cv::line", "", <<mat, x1, y1, x2, y2, b, g, r, thickness>>))

\* ---------------------------------------------------------------- accessors
\* Faulty variant: a null handle is answered with -1.
AccessorMinusOne(op, mat, zero, value) ==
    /\ Done(op, <<mat>>, <<>>, <<>>, <<>>, IF mat = NULL THEN RetInt(0 - 1) ELSE value)
    /\ UNCHANGED <<native, host>>

\* The body the accessors share (lines 328-346, 382-386): the null check, then
\* a read of the cv::Mat.
Accessor(op, mat, zero, value) ==
    /\ Done(op, <<mat>>, <<>>, <<>>, <<>>, IF mat = NULL THEN zero ELSE value)
    /\ UNCHANGED <<native, host>>

cv_mat_width ==
    /\ pc = "idle"
    /\ \E mat \in MatArgs :
        Accessor("cv_mat_width", mat, RetInt(0), RetInt(mats[mat].cols))

cv_mat_height ==
    /\ pc = "idle"
    /\ \E mat \in MatArgs :
        Accessor("cv_mat_height", mat, RetInt(0), RetInt(mats[mat].rows))

cv_mat_channels ==
    /\ pc = "idle"
    /\ \E mat \in MatArgs :
        Accessor("cv_mat_channels", mat, RetInt(0), RetInt(mats[mat].ch))

\* cv::Mat::data: NULL for an empty image, else the pixels that this cv::Mat
\* owns, named by their owner.
cv_mat_data ==
    /\ pc = "idle"
    /\ \E mat \in MatArgs :
        Accessor("cv_mat_data", mat, RetPtr(NULL),
                 RetPtr(IF mats[mat].rows = 0 \/ mats[mat].cols = 0 THEN NULL ELSE mat))

\* total() * elemSize() of an 8-bit image; the images here are far below
\* INT_MAX bytes, so the conversion to int keeps the value.
cv_mat_data_len ==
    /\ pc = "idle"
    /\ \E mat \in MatArgs :
        Accessor("cv_mat_data_len", mat, RetInt(0),
                 RetInt(mats[mat].rows * mats[mat].cols * mats[mat].ch))

\* ------------------------------------------------------------ video capture
Devices == {0, 1}

cv_videocapture_create ==
    /\ pc = "idle"
    /\ HasFree(DOMAIN caps, MaxCaps)
    /\ \E index \in Devices :
        LET cap == FirstFree(DOMAIN caps, MaxCaps)
            lib == <<LibCall("cv::VideoCapture::VideoCapture", "", <<index>>)>>
        IN
        \/ \* the constructor throws: the new-expression frees the storage
           /\ Escape("cv_videocapture_create", <<>>, <<index>>, lib,
                     <<<<"new", cap>>, <<"delete", cap>>>>, "exception")
           /\ UNCHANGED <<native, host>>
        \/ \* !cap->isOpened()
           /\ Done("cv_videocapture_create", <<>>, <<index>>,
                   Append(lib, LibCall("cv::VideoCapture::isOpened", "", <<cap>>)),
                   <<<<"new", cap>>, <<"delete", cap>>>>, RetHandle(NULL))
           /\ UNCHANGED <<native, host>>
        \/ /\ caps' = caps @@ (cap :> "open")
           /\ heldCaps' = heldCaps \cup {cap}
           /\ Done("cv_videocapture_create", <<>>, <<index>>,
                   Append(lib, LibCall("cv::VideoCapture::isOpened", "", <<cap>>)),
                   <<<<"new", cap>>>>, RetHandle(cap))
           /\ UNCHANGED <<mats, heap, heldMats, heldBytes, heldContours>>

cv_videocapture_release ==
    /\ pc = "idle"
    /\ \E cap \in CapArgs :
        /\ caps' = IF cap # NULL THEN Delete(caps, cap) ELSE caps
        /\ heldCaps' = heldCaps \ {cap}
        /\ Done("cv_videocapture_release", <<cap>>, <<>>, <<>>,
                IF cap # NULL THEN <<<<"delete", cap>>>> ELSE <<>>, RetVoid)
    /\ UNCHANGED <<mats, heap, heldMats, heldBytes, heldContours>>

cv_videocapture_read ==
    /\ pc = "idle"
    /\ \E cap \in CapArgs, dst \in MatArgs :
        /\ IF cap = NULL \/ dst = NULL
             THEN /\ Done("cv_videocapture_read", <<cap, dst>>, <<>>, <<>>, <<>>, RetInt(0))
                  /\ mats' = mats
             ELSE LET lib == <<LibCall("cv::VideoCapture::read", "", <<cap, dst>>)>> IN
                  \/ /\ Escape("cv_videocapture_read", <<cap, dst>>, <<>>, lib, <<>>,
                               "exception")
                     /\ mats' = mats
                  \/ \* a frame arrived: it is written into *frame
                     \E image \in ImageValues :
                       /\ mats' = [mats EXCEPT ![dst] = image]
                       /\ Done("cv_videocapture_read", <<cap, dst>>, <<>>, lib, <<>>,
                               RetInt(1))
                  \/ \* no frame: the library leaves *frame empty
                     /\ mats' = [mats EXCEPT ![dst] = EmptyMat]
                     /\ Done("cv_videocapture_read", <<cap, dst>>, <<>>, lib, <<>>, RetInt(0))
    /\ UNCHANGED <<caps, heap, host>>

cv_videocapture_get ==
    /\ pc = "idle"
    /\ \E cap \in CapArgs, propId \in Dom(1) :
        /\ IF cap = NULL
             THEN Done("cv_videocapture_get", <<cap>>, <<propId>>, <<>>, <<>>, RetDouble(0))
             ELSE LET lib == <<LibCall("cv::VideoCapture::get", "", <<cap, propId>>)>> IN
                  \/ Escape("cv_videocapture_get", <<cap>>, <<propId>>, lib, <<>>, "exception")
                  \/ \E v \in PropVals :
                      Done("cv_videocapture_get", <<cap>>, <<propId>>, lib, <<>>,
                           RetDouble(v))
    /\ UNCHANGED <<native, host>>

cv_videocapture_set ==
    /\ pc = "idle"
    /\ \E cap \in CapArgs, propId \in Dom(1), value \in PropVals :
        /\ IF cap = NULL
             THEN Done("cv_videocapture_set", <<cap>>, <<propId, value>>, <<>>, <<>>, RetVoid)
             ELSE LET lib == <<LibCall("cv::VideoCapture::set", "", <<cap, propId, value>>)>>
                  IN
                  \/ Escape("cv_videocapture_set", <<cap>>, <<propId, value>>, lib, <<>>,
                            "exception")
                  \/ Done("cv_videocapture_set", <<cap>>, <<propId, value>>, lib, <<>>,
                          RetVoid)
    /\ UNCHANGED <<native, host>>


Next ==
    \/ Resume
    \/ opencv_version
    \/ cv_mat_create
    \/ cv_mat_release
    \/ cv_imread
    \/ cv_imwrite
    \/ cv_imdecode
    \/ cv_imencode
    \/ cv_free_bytes
    \/ cv_cvtColor_bgr2gray
    \/ cv_cvtColor_bgr2rgb
    \/ cv_cvtColor_bgr2hsv
    \/ cv_cvtColor_hsv2bgr
    \/ cv_cvtColor_bgr2lab
    \/ cv_cvtColor_lab2bgr
    \/ cv_resize
    \/ cv_flip
    \/ cv_rotate
    \/ cv_gaussian_blur
    \/ cv_median_blur
    \/ cv_bilateral_filter
    \/ cv_canny
    \/ cv_sobel
    \/ cv_laplacian
    \/ cv_sharpen
    \/ cv_erode
    \/ cv_dilate
    \/ cv_morphology_ex
    \/ cv_threshold
    \/ cv_adaptive_threshold
    \/ cv_equalize_hist
    \/ cv_fast_nl_means_denoising
    \/ cv_fast_nl_means_denoising_colored
    \/ cv_find_contours
    \/ cv_free_contours
    \/ cv_draw_contours
    \/ cv_rectangle
    \/ cv_circle
    \/ cv_line
    \/ cv_mat_width
    \/ cv_mat_height
    \/ cv_mat_channels
    \/ cv_mat_data
    \/ cv_videocapture_create
    \/ cv_videocapture_release
    \/ cv_videocapture_read
    \/ cv_videocapture_get
    \/ cv_videocapture_set
    \/ cv_mat_data_len

Spec == Init /\ [][Next]_vars

\* =================================================================== claims
TransformOps ==
    {"cv_cvtColor_bgr2gray", "cv_cvtColor_bgr2rgb", "cv_cvtColor_bgr2hsv",
     "cv_cvtColor_hsv2bgr", "cv_cvtColor_bgr2lab", "cv_cvtColor_lab2bgr",
     "cv_resize", "cv_flip", "cv_rotate", "cv_gaussian_blur", "cv_median_blur",
     "cv_bilateral_filter", "cv_canny", "cv_sobel", "cv_laplacian", "cv_sharpen",
     "cv_erode", "cv_dilate", "cv_morphology_ex", "cv_threshold",
     "cv_adaptive_threshold", "cv_equalize_hist", "cv_fast_nl_means_denoising",
     "cv_fast_nl_means_denoising_colored"}

DrawOps == {"cv_rectangle", "cv_circle", "cv_line", "cv_draw_contours"}

IntOps == {"cv_imwrite", "cv_videocapture_read", "cv_mat_width", "cv_mat_height",
           "cv_mat_channels", "cv_mat_data_len"}

VoidOps == DrawOps \cup {"cv_videocapture_set", "cv_mat_release", "cv_videocapture_release"}

\* The functions that return a handle.
Factories == TransformOps \cup {"cv_mat_create", "cv_imread", "cv_imdecode",
                                "cv_videocapture_create"}

\* The last call was given NULL for a handle it requires.
NullCall == \E i \in 1..Len(call.handles) : call.handles[i] = NULL

\* The last call took handles and all of them were valid.
ValidCall == call.handles # <<>> /\ ~NullCall

ZeroOf(op) ==
    IF op \in TransformOps THEN RetHandle(NULL)
    ELSE IF op \in IntOps THEN RetInt(0)
    ELSE IF op = "cv_mat_data" THEN RetPtr(NULL)
    ELSE IF op = "cv_videocapture_get" THEN RetDouble(0)
    ELSE IF op = "cv_imencode" THEN RetBytes(ZeroBytes)
    ELSE IF op = "cv_find_contours" THEN RetContours(ZeroContours)
    ELSE RetVoid

LogAddrs(log) == {log[i][2] : i \in 1..Len(log)}

\* C1: a call that is given NULL for a required handle (for read: the device
\* or the target buffer) returns, returns the zero of its return type, calls
\* the library not at all, allocates and frees nothing, and leaves every
\* native object and everything the host holds as it was.
C1_NullHandleIsNoOp ==
    [][NullCall' =>
        /\ pc' = "returned"
        /\ call'.op \in TransformOps \cup IntOps \cup VoidOps
                        \cup {"cv_mat_data", "cv_videocapture_get", "cv_imencode",
                              "cv_find_contours"}
        /\ ret' = ZeroOf(call'.op)
        /\ ext' = <<>>
        /\ memlog' = <<>>
        /\ UNCHANGED <<native, host>>]_vars

\* read was given a live device and a NULL target while an image is live
C1_Witness ==
    /\ pc = "returned"
    /\ call.op = "cv_videocapture_read"
    /\ call.handles[1] # NULL
    /\ call.handles[2] = NULL
    /\ DOMAIN mats # {}
    /\ ret = RetInt(0)

C2_Step ==
    pc' = "returned" =>
        LET op == call'.op
            h == ret'.val
        IN
        /\ (op \in Factories \ {"cv_videocapture_create"} /\ h # NULL) =>
              /\ h \notin DOMAIN mats
              /\ DOMAIN mats' = DOMAIN mats \cup {h}
              /\ DOMAIN caps' = DOMAIN caps
        /\ (op = "cv_videocapture_create" /\ h # NULL) =>
              /\ h \notin DOMAIN caps
              /\ DOMAIN caps' = DOMAIN caps \cup {h}
              /\ DOMAIN mats' = DOMAIN mats
        /\ (op \in Factories /\ h = NULL) =>
              /\ ret'.tag = "handle"
              /\ UNCHANGED native
        /\ (op = "cv_mat_release" /\ call'.handles[1] # NULL) =>
              /\ call'.handles[1] \in DOMAIN mats
              /\ DOMAIN mats' = DOMAIN mats \ {call'.handles[1]}
              /\ DOMAIN caps' = DOMAIN caps
        /\ (op = "cv_videocapture_release" /\ call'.handles[1] # NULL) =>
              /\ call'.handles[1] \in DOMAIN caps
              /\ DOMAIN caps' = DOMAIN caps \ {call'.handles[1]}
              /\ DOMAIN mats' = DOMAIN mats
        /\ (op \in {"cv_mat_release", "cv_videocapture_release"}
              /\ call'.handles[1] = NULL) =>
              UNCHANGED native
        /\ op \notin Factories \cup {"cv_mat_release", "cv_videocapture_release"} =>
              /\ DOMAIN mats' = DOMAIN mats
              /\ DOMAIN caps' = DOMAIN caps

\* C2: at every moment the live cv::Mat and cv::VideoCapture objects are
\* exactly the handles that were returned and not yet released (so none is
\* live once the host has released them all); a call that returns a non-null
\* handle adds exactly one live object, a release of a live handle removes
\* exactly that one, a release of NULL and a factory that returns NULL change
\* nothing, and no other call changes which objects are live.
C2_AllocationAccounting ==
    /\ [](DOMAIN mats = heldMats /\ DOMAIN caps = heldCaps)
    /\ [][C2_Step]_vars

\* an open that failed (object created and deleted again) while an image is held
C2_Witness ==
    /\ pc = "returned"
    /\ call.op = "cv_videocapture_create"
    /\ ret = RetHandle(NULL)
    /\ memlog = <<<<"new", 1>>, <<"delete", 1>>>>
    /\ heldMats # {}

\* C3: cv_free_contours on a result of cv_find_contours with N > 0 contours
\* calls free exactly N + 2 times: on the N point arrays, then on the pointer
\* array, then on the sizes array, each block once; afterwards none of the
\* blocks of that result is live.
C3_FreeContoursOrder ==
    [][(call'.op = "cv_free_contours" /\ call'.args[3] > 0) =>
        LET outer == call'.args[1]
            sizes == call'.args[2]
            N == call'.args[3]
            blocks == {outer, sizes} \cup {heap[outer][i] : i \in 1..N}
        IN
        /\ pc' = "returned"
        /\ Len(memlog') = N + 2
        /\ \A i \in 1..N : memlog'[i] = <<"free", heap[outer][i]>>
        /\ memlog'[N + 1] = <<"free", outer>>
        /\ memlog'[N + 2] = <<"free", sizes>>
        /\ Cardinality(LogAddrs(memlog')) = N + 2
        /\ blocks \subseteq DOMAIN heap
        /\ DOMAIN heap' = DOMAIN heap \ blocks]_vars

C3_Witness ==
    /\ pc = "returned"
    /\ call.op = "cv_free_contours"
    /\ call.args[3] = MaxContours
    /\ Len(memlog) = MaxContours + 2

\* C4: cv_imencode always returns, and returns either {NULL, 0} or a non-null
\* block it has just allocated that holds len bytes; cv_free_bytes frees the
\* block once when data is non-null and does nothing when it is NULL.
C4_EncodeShapes ==
    /\ call.op = "cv_imencode" =>
          /\ pc = "returned"
          /\ ret.tag = "bytes"
          /\ \/ ret.p1 = NULL /\ ret.val = 0 /\ memlog = <<>>
             \/ /\ ret.p1 # NULL
                /\ memlog = <<<<"malloc", ret.p1>>>>
                /\ ret.p1 \in DOMAIN heap
                /\ Len(heap[ret.p1]) = ret.val
    /\ call.op = "cv_free_bytes" =>
          /\ pc = "returned"
          /\ memlog = IF call.args[1] # NULL THEN <<<<"free", call.args[1]>>>> ELSE <<>>
          /\ call.args[1] \notin DOMAIN heap

\* C5: every call that is given valid handles returns to its caller, whatever
\* the library does.
C5_AlwaysReturns == ValidCall => pc = "returned"

\* C6: when cv::findContours leaves no contour, cv_find_contours returns
\* {NULL, NULL, 0} and allocates nothing; when it leaves N > 0 contours the
\* result has num_contours = N, contour_sizes[i] is the number of points of
\* contour i, and contours[i] holds its points as x, y, x, y, ... in order.
C6_FindContoursResult ==
    (pc = "returned" /\ call.op = "cv_find_contours" /\ ~NullCall) =>
        LET found == ext[1].found
            N == Len(found)
        IN
        /\ ret.tag = "contours"
        /\ ret.val = N
        /\ N = 0 => ret.p1 = NULL /\ ret.p2 = NULL /\ memlog = <<>>
        /\ N > 0 =>
              /\ ret.p1 \in DOMAIN heap
              /\ ret.p2 \in DOMAIN heap
              /\ Len(heap[ret.p1]) = N
              /\ Len(heap[ret.p2]) = N
              /\ \A i \in 1..N :
                    LET points == heap[heap[ret.p1][i]] IN
                    /\ heap[ret.p2][i] = Len(found[i])
                    /\ Len(points) = 2 * Len(found[i])
                    /\ \A j \in 1..Len(found[i]) :
                          /\ points[2 * j - 1] = found[i][j][1]
                          /\ points[2 * j] = found[i][j][2]

C6_Witness ==
    /\ pc = "returned"
    /\ call.op = "cv_find_contours"
    /\ ret.val = MaxContours
    /\ Len(heap[heap[ret.p1][MaxContours]]) = 2 * PointsOf(MaxContours)

\* C7: when a malloc inside cv_find_contours returns NULL, the call returns
\* {NULL, NULL, 0} and no block it allocated stays live.
C7_AllocFailureLooksEmpty ==
    (call.op = "cv_find_contours" /\ NULL \in LogAddrs(memlog)) =>
        /\ pc = "returned"
        /\ ret = RetContours(ZeroContours)
        /\ LogAddrs(memlog) \cap DOMAIN heap = {}

\* C8: cv_gaussian_blur, cv_median_blur and cv_adaptive_threshold with a
\* non-null handle hand the library k when k is odd and k + 1 when k is even,
\* so always an odd size, with every other argument passed on as given.
C8_OddKernel ==
    LET up(k) == IF k % 2 = 0 THEN k + 1 ELSE k
        mat == call.handles[1]
        a == call.args
    IN
    /\ (call.op = "cv_gaussian_blur" /\ ~NullCall) =>
          /\ ext[1] = LibCall("cv::GaussianBlur", "", <<mat, up(a[1]), up(a[1]), a[2]>>)
          /\ ext[1].args[2] % 2 = 1
    /\ (call.op = "cv_median_blur" /\ ~NullCall) =>
          /\ ext[1] = LibCall("cv::medianBlur", "", <<mat, up(a[1])>>)
          /\ ext[1].args[2] % 2 = 1
    /\ (call.op = "cv_adaptive_threshold" /\ ~NullCall) =>
          /\ ext[1] = LibCall("cv::adaptiveThreshold", "",
                              <<mat, a[1], a[2], a[3], up(a[4]), a[5]>>)
          /\ ext[1].args[5] % 2 = 1

\* gaussian_blur(h, 4, s) reached the library as size 5
C8_Witness ==
    /\ pc = "returned"
    /\ call.op = "cv_gaussian_blur"
    /\ call.args[1] = 4
    /\ ret.val # NULL
    /\ ext[1].args[2] = 5

\* C9: cv_sobel and cv_laplacian with a non-null handle and an even ksize hand
\* the library ksize + 1 (stated for the calls that return).
C9_SobelLaplacianOddKernel ==
    pc = "returned" =>
        /\ (call.op = "cv_sobel" /\ ~NullCall /\ call.args[3] % 2 = 0) =>
              ext[1].args[4] = call.args[3] + 1
        /\ (call.op = "cv_laplacian" /\ ~NullCall /\ call.args[1] % 2 = 0) =>
              ext[1].args[2] = call.args[1] + 1

\* C10: a transform that returns leaves every object that was live as it was
\* (its input included) and returns the address of one new object; a drawing
\* function changes at most the pixels of its target and creates, releases,
\* allocates and frees nothing; in particular cv_draw_contours leaves the
\* arrays of the contour set unmodified and live, and the host still holds it.
C10_Frames ==
    [][pc' = "returned" =>
        /\ (call'.op \in TransformOps /\ ~NullCall') =>
              /\ ret'.val # NULL
              /\ ret'.val \notin DOMAIN mats
              /\ DOMAIN mats' = DOMAIN mats \cup {ret'.val}
              /\ \A a \in DOMAIN mats : mats'[a] = mats[a]
              /\ UNCHANGED <<caps, heap, heldCaps, heldBytes, heldContours>>
        /\ call'.op \in DrawOps =>
              /\ DOMAIN mats' = DOMAIN mats
              /\ \A a \in DOMAIN mats :
                    \/ mats'[a] = mats[a]
                    \/ /\ a = call'.handles[1]
                       /\ [mats'[a] EXCEPT !.pix = 0] = [mats[a] EXCEPT !.pix = 0]
              /\ memlog' = <<>>
              /\ UNCHANGED <<caps, heap, host>>]_vars

\* cv_draw_contours drew into a live image with a live contour set
C10_Witness ==
    /\ pc = "returned"
    /\ call.op = "cv_draw_contours"
    /\ call.handles[1] # NULL
    /\ call.args[1] # NULL
    /\ ext # <<>>
    /\ heldContours # {}
    /\ Cardinality(DOMAIN mats) = MaxMats
====
